---------------------------- MODULE Spec2Model ----------------------------
(***************************************************************************)
(* Model of the generic pagination / query-building helpers of the blog    *)
(* backend (package helpers, src/pkg/helpers/pagination).                  *)
(*                                                                         *)
(* Conventions                                                             *)
(*  - A Go string is a sequence of code points (<<97, 115, 99>> is "asc"), *)
(*    so that character tests, concatenation, splitting and case mapping   *)
(*    are computed as the code computes them.                              *)
(*  - A *gorm.DB query is the sequence of builder calls made on it, each a *)
(*    record [op, sql, args]; the ORM itself is an external collaborator.  *)
(***************************************************************************)
EXTENDS Integers, Sequences, FiniteSets, TLC

VARIABLES
    \* The pagination helpers (pagination.go, lines 33-126): one call.
    pgOp,        \* the helper called ("call_*"), then the helper that ran
    pgQuery,     \* the raw query parameters handed to BindPagination
    pgRequest,   \* the PaginationRequest handed to Validate / CalculatePagination
    pgResult,    \* the PaginationRequest that BindPagination / Validate left
    pgTotal,     \* the totalCount handed to CalculatePagination (a numeral)
    pgResponse,  \* the PaginationResponse CalculatePagination returned
    \* The identifier validators (pagination.go, lines 344-370): one candidate.
    vdInput,     \* the candidate sort field / include
    vdDone,      \* the validators that have run on it
    vdSort,      \* what isValidSortField returned
    vdInclude,   \* what isValidInclude returned
    \* DynamicFilter.ApplyFilters (pagination_query.go): one call.
    dfOp,        \* "call" before ApplyFilters runs, "applied" after
    dfFilter,    \* the DynamicFilter: its Filters and its Model
    dfQuery,     \* the query ApplyFilters returned
    \* PaginatedQueryWithOptions (pagination.go, lines 271-342): one call.
    pc,          \* where the call stands: "start", "counted", "returned"
    table,       \* the backing table: the rows the ORDER BY would list
    builder,     \* argument: the QueryBuilder
    pagination,  \* argument: the PaginationRequest (GetOffset and GetLimit write it)
    includes,    \* argument: the requested includes
    options,     \* argument: the PaginatedQueryOptions
    countQuery,  \* local: the count query as built
    dataQuery,   \* local: the data query as built
    totalCount,  \* local: what Count stored
    executed,    \* the queries the backend was asked to run, in order
    ret,         \* the (result, total, error) returned
    \* PaginatedQueryWithIncludable and PaginatedQueryWithIncludableAndOptions
    \* (pagination.go, lines 230-269): one call.
    epOp,        \* "call_includable", "call_options", then "done"
    epDb,        \* argument: the connection, possibly nil
    epBuilder,   \* argument: the IncludableQueryBuilder
    epOptions,   \* argument: the options (the second entry point only)
    epCalls,     \* the methods of the builder called so far, in order
    epOutcome    \* how the call ends

pgVars == <<pgOp, pgQuery, pgRequest, pgResult, pgTotal, pgResponse>>

vdVars == <<vdInput, vdDone, vdSort, vdInclude>>

dfVars == <<dfOp, dfFilter, dfQuery>>

exVars == <<pc, table, builder, pagination, includes, options, countQuery,
            dataQuery, totalCount, executed, ret>>

epVars == <<epOp, epDb, epBuilder, epOptions, epCalls, epOutcome>>

vars == <<pgOp, pgQuery, pgRequest, pgResult, pgTotal, pgResponse,
          vdInput, vdDone, vdSort, vdInclude,
          dfOp, dfFilter, dfQuery,
          pc, table, builder, pagination, includes, options, countQuery,
          dataQuery, totalCount, executed, ret,
          epOp, epDb, epBuilder, epOptions, epCalls, epOutcome>>

-----------------------------------------------------------------------------
(* String literals, as code-point sequences.                               *)

\* The string literals of the source.
Lit ==
    [
      \* ""
      empty |-> <<>>,
      \* "asc"
      asc |-> <<97, 115, 99>>,
      \* "desc"
      desc |-> <<100, 101, 115, 99>>,
      \* "="
      op_eq |-> <<61>>,
      \* "EQ"
      op_EQ |-> <<69, 81>>,
      \* "EQUALS"
      op_EQUALS |-> <<69, 81, 85, 65, 76, 83>>,
      \* "!="
      op_ne |-> <<33, 61>>,
      \* "NE"
      op_NE |-> <<78, 69>>,
      \* "NOT_EQUALS"
      op_NOT_EQUALS |-> <<78, 79, 84, 95, 69, 81, 85, 65, 76, 83>>,
      \* ">"
      op_gt |-> <<62>>,
      \* "GT"
      op_GT |-> <<71, 84>>,
      \* "GREATER_THAN"
      op_GREATER_THAN |-> <<71, 82, 69, 65, 84, 69, 82, 95, 84, 72, 65,
          78>>,
      \* ">="
      op_ge |-> <<62, 61>>,
      \* "GTE"
      op_GTE |-> <<71, 84, 69>>,
      \* "GREATER_THAN_EQUALS"
      op_GREATER_THAN_EQUALS |-> <<71, 82, 69, 65, 84, 69, 82, 95, 84, 72,
          65, 78, 95, 69, 81, 85, 65, 76, 83>>,
      \* "<"
      op_lt |-> <<60>>,
      \* "LT"
      op_LT |-> <<76, 84>>,
      \* "LESS_THAN"
      op_LESS_THAN |-> <<76, 69, 83, 83, 95, 84, 72, 65, 78>>,
      \* "<="
      op_le |-> <<60, 61>>,
      \* "LTE"
      op_LTE |-> <<76, 84, 69>>,
      \* "LESS_THAN_EQUALS"
      op_LESS_THAN_EQUALS |-> <<76, 69, 83, 83, 95, 84, 72, 65, 78, 95,
          69, 81, 85, 65, 76, 83>>,
      \* "LIKE"
      op_LIKE |-> <<76, 73, 75, 69>>,
      \* "CONTAINS"
      op_CONTAINS |-> <<67, 79, 78, 84, 65, 73, 78, 83>>,
      \* "ILIKE"
      op_ILIKE |-> <<73, 76, 73, 75, 69>>,
      \* "ICONTAINS"
      op_ICONTAINS |-> <<73, 67, 79, 78, 84, 65, 73, 78, 83>>,
      \* "IN"
      op_IN |-> <<73, 78>>,
      \* "NOT_IN"
      op_NOT_IN |-> <<78, 79, 84, 95, 73, 78>>,
      \* "IS_NULL"
      op_IS_NULL |-> <<73, 83, 95, 78, 85, 76, 76>>,
      \* "IS_NOT_NULL"
      op_IS_NOT_NULL |-> <<73, 83, 95, 78, 79, 84, 95, 78, 85, 76, 76>>,
      \* " = ?"
      sql_eq |-> <<32, 61, 32, 63>>,
      \* " != ?"
      sql_ne |-> <<32, 33, 61, 32, 63>>,
      \* " > ?"
      sql_gt |-> <<32, 62, 32, 63>>,
      \* " >= ?"
      sql_ge |-> <<32, 62, 61, 32, 63>>,
      \* " < ?"
      sql_lt |-> <<32, 60, 32, 63>>,
      \* " <= ?"
      sql_le |-> <<32, 60, 61, 32, 63>>,
      \* " LIKE ?"
      sql_like |-> <<32, 76, 73, 75, 69, 32, 63>>,
      \* " ILIKE ?"
      sql_ilike |-> <<32, 73, 76, 73, 75, 69, 32, 63>>,
      \* " IN ?"
      sql_in |-> <<32, 73, 78, 32, 63>>,
      \* " NOT IN ?"
      sql_not_in |-> <<32, 78, 79, 84, 32, 73, 78, 32, 63>>,
      \* " IS NULL"
      sql_is_null |-> <<32, 73, 83, 32, 78, 85, 76, 76>>,
      \* " IS NOT NULL"
      sql_is_not_null |-> <<32, 73, 83, 32, 78, 79, 84, 32, 78, 85, 76,
          76>>,
      \* "OR"
      OR |-> <<79, 82>>,
      \* "column:"
      column_prefix |-> <<99, 111, 108, 117, 109, 110, 58>>,
      \* "-"
      dash |-> <<45>>,
      \* "deleted_at IS NULL"
      deleted_at_is_null |-> <<100, 101, 108, 101, 116, 101, 100, 95, 97,
          116, 32, 73, 83, 32, 78, 85, 76, 76>>,
      \* " "
      space |-> <<32>>,
      \* "%"
      percent |-> <<37>>,
      \* "ILIKE"
      ILIKE |-> <<73, 76, 73, 75, 69>>,
      \* "LIKE"
      LIKE |-> <<76, 73, 75, 69>>,
      \* " ?"
      placeholder |-> <<32, 63>>,
      \* "("
      lparen |-> <<40>>,
      \* ")"
      rparen |-> <<41>>,
      \* " OR "
      or_sep |-> <<32, 79, 82, 32>>,
      \* "id asc"
      id_asc |-> <<105, 100, 32, 97, 115, 99>>
    ]

\* Sample texts: field names, struct tags, operators, logic tags, values.
Txt ==
    [
      \* "ASC"
      ASC |-> <<65, 83, 67>>,
      \* "go"
      go |-> <<103, 111>>,
      \* "name"
      name |-> <<110, 97, 109, 101>>,
      \* "created_at"
      created_at |-> <<99, 114, 101, 97, 116, 101, 100, 95, 97, 116>>,
      \* "user.name"
      user_name |-> <<117, 115, 101, 114, 46, 110, 97, 109, 101>>,
      \* "created_at;DROP TABLE x"
      injection |-> <<99, 114, 101, 97, 116, 101, 100, 95, 97, 116, 59,
          68, 82, 79, 80, 32, 84, 65, 66, 76, 69, 32, 120>>,
      \* "ID"
      ID |-> <<73, 68>>,
      \* "id"
      id |-> <<105, 100>>,
      \* "UserID"
      UserID |-> <<85, 115, 101, 114, 73, 68>>,
      \* "user_id"
      user_id |-> <<117, 115, 101, 114, 95, 105, 100>>,
      \* "userid"
      userid |-> <<117, 115, 101, 114, 105, 100>>,
      \* "User"
      User |-> <<85, 115, 101, 114>>,
      \* "Timestamp"
      Timestamp |-> <<84, 105, 109, 101, 115, 116, 97, 109, 112>>,
      \* "Title"
      Title |-> <<84, 105, 116, 108, 101>>,
      \* "post_title"
      post_title |-> <<112, 111, 115, 116, 95, 116, 105, 116, 108, 101>>,
      \* "title"
      title |-> <<116, 105, 116, 108, 101>>,
      \* "nope"
      nope |-> <<110, 111, 112, 101>>,
      \* "id;DROP"
      id_drop |-> <<105, 100, 59, 68, 82, 79, 80>>,
      \* "type:uuid;primary_key;default:uuid_generate_v4()"
      tag_uuid_pk |-> <<116, 121, 112, 101, 58, 117, 117, 105, 100, 59,
          112, 114, 105, 109, 97, 114, 121, 95, 107, 101, 121, 59, 100,
          101, 102, 97, 117, 108, 116, 58, 117, 117, 105, 100, 95, 103,
          101, 110, 101, 114, 97, 116, 101, 95, 118, 52, 40, 41>>,
      \* "type:uuid;not null"
      tag_uuid_notnull |-> <<116, 121, 112, 101, 58, 117, 117, 105, 100,
          59, 110, 111, 116, 32, 110, 117, 108, 108>>,
      \* "foreignKey:UserID;constraint:OnUpdate:CASCADE,OnDelete:CASCADE;"
      tag_fk |-> <<102, 111, 114, 101, 105, 103, 110, 75, 101, 121, 58,
          85, 115, 101, 114, 73, 68, 59, 99, 111, 110, 115, 116, 114, 97,
          105, 110, 116, 58, 79, 110, 85, 112, 100, 97, 116, 101, 58, 67,
          65, 83, 67, 65, 68, 69, 44, 79, 110, 68, 101, 108, 101, 116,
          101, 58, 67, 65, 83, 67, 65, 68, 69, 59>>,
      \* "type:text;column:post_title"
      tag_text_column |-> <<116, 121, 112, 101, 58, 116, 101, 120, 116,
          59, 99, 111, 108, 117, 109, 110, 58, 112, 111, 115, 116, 95,
          116, 105, 116, 108, 101>>,
      \* "title,omitempty"
      tag_title_omitempty |-> <<116, 105, 116, 108, 101, 44, 111, 109,
          105, 116, 101, 109, 112, 116, 121>>,
      \* "eq"
      op_eq_lower |-> <<101, 113>>,
      \* "is_not_null"
      op_is_not_null_lower |-> <<105, 115, 95, 110, 111, 116, 95, 110,
          117, 108, 108>>,
      \* "like"
      op_like_lower |-> <<108, 105, 107, 101>>,
      \* "bogus"
      op_bogus |-> <<98, 111, 103, 117, 115>>,
      \* "AND"
      AND |-> <<65, 78, 68>>,
      \* "or"
      or |-> <<111, 114>>,
      \* "Or"
      Or |-> <<79, 114>>,
      \* "xor"
      xor |-> <<120, 111, 114>>,
      \* "x"
      x |-> <<120>>,
      \* "posts"
      posts |-> <<112, 111, 115, 116, 115>>,
      \* "body"
      body |-> <<98, 111, 100, 121>>,
      \* "excerpt"
      excerpt |-> <<101, 120, 99, 101, 114, 112, 116>>,
      \* "created_at desc"
      created_at_desc |-> <<99, 114, 101, 97, 116, 101, 100, 95, 97, 116,
          32, 100, 101, 115, 99>>,
      \* "author"
      author |-> <<97, 117, 116, 104, 111, 114>>,
      \* "tags"
      tags |-> <<116, 97, 103, 115>>,
      \* "tags;x"
      bad_include |-> <<116, 97, 103, 115, 59, 120>>,
      \* "SELECT COUNT(*) FROM posts"
      custom_count |-> <<83, 69, 76, 69, 67, 84, 32, 67, 79, 85, 78, 84,
          40, 42, 41, 32, 70, 82, 79, 77, 32, 112, 111, 115, 116, 115>>,
      \* "status = ?"
      status_eq |-> <<115, 116, 97, 116, 117, 115, 32, 61, 32, 63>>,
      \* "published"
      published |-> <<112, 117, 98, 108, 105, 115, 104, 101, 100>>,
      \* "asc; DROP TABLE x"
      bad_order |-> <<97, 115, 99, 59, 32, 68, 82, 79, 80, 32, 84, 65, 66,
          76, 69, 32, 120>>,
      \* "(title ILIKE ? OR body ILIKE ?)"
      search_sql |-> <<40, 116, 105, 116, 108, 101, 32, 73, 76, 73, 75,
          69, 32, 63, 32, 79, 82, 32, 98, 111, 100, 121, 32, 73, 76, 73,
          75, 69, 32, 63, 41>>,
      \* "%go%"
      search_pattern |-> <<37, 103, 111, 37>>
    ]

-----------------------------------------------------------------------------
(* Bounds of the model.                                                    *)

\* Longest raw "page" / "per_page" parameter text.
MaxRawLen == 3

\* Largest |Page| of a hand-built PaginationRequest.
MaxPage == 3

\* Longest candidate identifier drawn character by character.
MaxIdentLen == 2

\* Longest list of FilterConditions of a DynamicFilter.
MaxFilters == 3

\* Most search fields a builder declares.
MaxSearchFields == 2

\* Longest list of requested includes.
MaxIncludes == 2

\* Largest number a caller's own count statement reports.
MaxCustomCount == 2

-----------------------------------------------------------------------------
(* gin.Context.Query and strconv.Atoi, as BindPagination uses them.        *)

\* A query parameter is absent, or present with a (possibly empty) text.
Absent == [present |-> FALSE, value |-> <<>>]

Present(s) == [present |-> TRUE, value |-> s]

\* ctx.Query(key): the parameter's text, "" when the key is absent.
Query(ctx, key) == IF ctx[key].present THEN ctx[key].value ELSE <<>>

IsDigit(c) == c >= 48 /\ c <= 57

RECURSIVE DigitsValue(_)
\* The base-10 value of a sequence of ASCII digits.
DigitsValue(s) ==
    IF s = <<>> THEN 0
    ELSE DigitsValue(SubSeq(s, 1, Len(s) - 1)) * 10 + (s[Len(s)] - 48)

\* strconv.Atoi: an optional sign, then one or more decimal digits; any
\* other text is an error.  (Texts of at most MaxRawLen characters never
\* leave the range of int.)
Atoi(s) ==
    LET signed == s # <<>> /\ s[1] \in {43, 45}
        body   == IF signed THEN Tail(s) ELSE s
        ok     == body # <<>> /\ \A i \in 1..Len(body) : IsDigit(body[i])
        mag    == IF ok THEN DigitsValue(body) ELSE 0
    IN  [err |-> ~ok,
         val |-> IF signed /\ s[1] = 45 THEN 0 - mag ELSE mag]

-----------------------------------------------------------------------------
(* PaginationRequest (pagination.go).                                      *)

PaginationRequest(page, perPage, search, sort, order) ==
    [Page |-> page, PerPage |-> perPage, Search |-> search, Sort |-> sort,
     Order |-> order]

\* func (p *PaginationRequest) Validate()
Validate(p) ==
    LET p1 == IF p.Page <= 0 THEN [p EXCEPT !.Page = 1] ELSE p
        p2 == IF p1.PerPage <= 0 THEN [p1 EXCEPT !.PerPage = 10] ELSE p1
        p3 == IF p2.Order = Lit.empty THEN [p2 EXCEPT !.Order = Lit.asc] ELSE p2
        p4 == IF p3.Order # Lit.asc /\ p3.Order # Lit.desc
              THEN [p3 EXCEPT !.Order = Lit.asc] ELSE p3
    IN  p4

\* A mutant of BindPagination: the upper limit of per_page is not checked.
BindPagination_NoCap(ctx) ==
    LET p0 == PaginationRequest(1, 10, Lit.empty, Lit.empty, Lit.asc)
        pageStr == Query(ctx, "page")
        page == Atoi(pageStr)
        p1 == IF pageStr # <<>> /\ ~page.err /\ page.val > 0
              THEN [p0 EXCEPT !.Page = page.val] ELSE p0
        perPageStr == Query(ctx, "per_page")
        perPage == Atoi(perPageStr)
        p2 == IF perPageStr # <<>> /\ ~perPage.err /\ perPage.val > 0
              THEN [p1 EXCEPT !.PerPage = perPage.val] ELSE p1
        p3 == [p2 EXCEPT !.Search = Query(ctx, "search")]
        p4 == [p3 EXCEPT !.Sort = Query(ctx, "sort")]
        order == Query(ctx, "order")
        p5 == IF order = Lit.desc \/ order = Lit.asc
              THEN [p4 EXCEPT !.Order = order] ELSE p4
    IN  Validate(p5)

\* func BindPagination(ctx *gin.Context) PaginationRequest
BindPagination(ctx) ==
    LET p0 == PaginationRequest(1, 10, Lit.empty, Lit.empty, Lit.asc)
        pageStr == Query(ctx, "page")
        page == Atoi(pageStr)
        p1 == IF pageStr # <<>> /\ ~page.err /\ page.val > 0
              THEN [p0 EXCEPT !.Page = page.val] ELSE p0
        perPageStr == Query(ctx, "per_page")
        perPage == Atoi(perPageStr)
        p2 == IF perPageStr # <<>> /\ ~perPage.err /\ perPage.val > 0
                 /\ perPage.val <= 100
              THEN [p1 EXCEPT !.PerPage = perPage.val] ELSE p1
        p3 == [p2 EXCEPT !.Search = Query(ctx, "search")]
        p4 == [p3 EXCEPT !.Sort = Query(ctx, "sort")]
        order == Query(ctx, "order")
        p5 == IF order = Lit.desc \/ order = Lit.asc
              THEN [p4 EXCEPT !.Order = order] ELSE p4
    IN  Validate(p5)

-----------------------------------------------------------------------------
(* int64 and float64 arithmetic of CalculatePagination.                    *)
(*                                                                         *)
(* A non-negative int64 is a binary numeral: its bits, most significant    *)
(* first, without leading zeros (0 is the empty sequence), so that totals  *)
(* beyond 2^53, where float64 stops representing every integer, can be     *)
(* computed with.  A float64 is [sig, exp], denoting sig * 2^exp, with sig *)
(* a numeral of exactly Float64Precision bits (or empty, for 0).           *)

\* Bits of the significand of a float64 (IEEE 754 binary64).
Float64Precision == 53

RECURSIVE Bits(_)
\* The numeral of a small natural number.
Bits(n) == IF n = 0 THEN <<>> ELSE Append(Bits(n \div 2), n % 2)

RECURSIVE BitsValue(_)
\* The value of a numeral short enough to be a small natural number.
BitsValue(b) ==
    IF b = <<>> THEN 0
    ELSE 2 * BitsValue(SubSeq(b, 1, Len(b) - 1)) + b[Len(b)]

\* b without its leading zeros.
StripZeros(b) ==
    IF \A i \in 1..Len(b) : b[i] = 0 THEN <<>>
    ELSE LET first == CHOOSE i \in 1..Len(b) :
                          b[i] = 1 /\ \A j \in 1..(i - 1) : b[j] = 0
         IN  SubSeq(b, first, Len(b))

Zeros(n) == [i \in 1..n |-> 0]

\* b + 1: the last 0 becomes 1 and the ones after it become 0.
IncBits(b) ==
    IF \A i \in 1..Len(b) : b[i] = 1 THEN <<1>> \o Zeros(Len(b))
    ELSE LET last == CHOOSE i \in 1..Len(b) :
                         b[i] = 0 /\ \A j \in (i + 1)..Len(b) : b[j] = 1
         IN  SubSeq(b, 1, last - 1) \o <<1>> \o Zeros(Len(b) - last)

RECURSIVE LongDiv(_, _, _)
\* Schoolbook division by d > 0 of the bits b, entered with remainder r < d
\* from the bits before them: [q, r], the quotient bits of b (as many as b
\* has) and the remainder after them.  (The bits are taken half by half.)
LongDiv(b, d, r) ==
    IF b = <<>> THEN [q |-> <<>>, r |-> r]
    ELSE IF Len(b) = 1
    THEN LET r2 == 2 * r + b[1]
         IN  IF r2 >= d THEN [q |-> <<1>>, r |-> r2 - d]
             ELSE [q |-> <<0>>, r |-> r2]
    ELSE LET half  == Len(b) \div 2
             left  == LongDiv(SubSeq(b, 1, half), d, r)
             right == LongDiv(SubSeq(b, half + 1, Len(b)), d, left.r)
         IN  [q |-> left.q \o right.q, r |-> right.r]

\* The real number n / d, d > 0, rounded to the nearest float64, ties to
\* even: the quotient is developed to Float64Precision significant bits, a
\* guard bit and a sticky remainder.
Float64Quotient(n, d) ==
    LET fracLen == Float64Precision + 1 + Len(Bits(d))
        dev     == LongDiv(n \o Zeros(fracLen), d, 0)
        digits  == StripZeros(dev.q)          \* floor(n * 2^fracLen / d)
        len     == Len(digits)
    IN  IF digits = <<>> THEN [sig |-> <<>>, exp |-> 0]
        ELSE LET sig    == SubSeq(digits, 1, Float64Precision)
                 guard  == digits[Float64Precision + 1]
                 sticky == dev.r # 0
                           \/ \E i \in (Float64Precision + 2)..len : digits[i] = 1
                 up     == guard = 1 /\ (sticky \/ sig[Float64Precision] = 1)
                 sig2   == IF up THEN IncBits(sig) ELSE sig
                 exp    == len - Float64Precision - fracLen
             IN  IF Len(sig2) > Float64Precision
                 THEN [sig |-> SubSeq(sig2, 1, Float64Precision), exp |-> exp + 1]
                 ELSE [sig |-> sig2, exp |-> exp]

\* float64(n) of an int64 n >= 0.
Float64FromInt(n) == Float64Quotient(n, 1)

\* x / float64(d) for a float64 x >= 0 holding an integer and a small d > 0
\* (float64(d) is exact).
Float64Div(x, d) ==
    IF x.sig = <<>> THEN x
    ELSE IF x.exp >= 0 THEN Float64Quotient(x.sig \o Zeros(x.exp), d)
    ELSE Float64Quotient(SubSeq(x.sig, 1, Float64Precision + x.exp), d)

\* int64(math.Ceil(x)) of a float64 x >= 0 below 2^63.
CeilToInt64(x) ==
    IF x.sig = <<>> THEN <<>>
    ELSE IF x.exp >= 0 THEN x.sig \o Zeros(x.exp)
    ELSE LET intLen == Float64Precision + x.exp
             int    == IF intLen > 0 THEN SubSeq(x.sig, 1, intLen) ELSE <<>>
             frac   == IF intLen > 0
                       THEN SubSeq(x.sig, intLen + 1, Float64Precision)
                       ELSE x.sig
         IN  IF \E i \in 1..Len(frac) : frac[i] = 1 THEN IncBits(int) ELSE int

PaginationResponse(page, perPage, maxPage, total) ==
    [Page |-> page, PerPage |-> perPage, MaxPage |-> maxPage, Total |-> total]

\* func CalculatePagination(pagination PaginationRequest, totalCount int64)
\* for PerPage >= 1 and totalCount >= 0.
CalculatePagination(p, total) ==
    LET quotient == Float64Div(Float64FromInt(total), p.PerPage)
        maxPage  == CeilToInt64(quotient)
    IN  PaginationResponse(p.Page, p.PerPage,
                           IF maxPage = <<>> THEN <<1>> ELSE maxPage, total)

-----------------------------------------------------------------------------
(* The identifier validators (pagination.go).                              *)

\* A mutant of isValidSortField: the empty string is let through.
isValidSortField_AcceptsEmpty(field) ==
    \A i \in 1..Len(field) :
        LET char == field[i]
        IN  \/ (char >= 97 /\ char <= 122)
            \/ (char >= 65 /\ char <= 90)
            \/ (char >= 48 /\ char <= 57)
            \/ char = 95 \/ char = 46

\* func isValidSortField(field string) bool
isValidSortField(field) ==
    IF \E i \in 1..Len(field) :
           LET char == field[i]
           IN  ~(\/ (char >= 97 /\ char <= 122)      \* 'a'..'z'
                 \/ (char >= 65 /\ char <= 90)       \* 'A'..'Z'
                 \/ (char >= 48 /\ char <= 57)       \* '0'..'9'
                 \/ char = 95 \/ char = 46)          \* '_', '.'
    THEN FALSE
    ELSE Len(field) > 0

\* func isValidInclude(include string) bool
isValidInclude(include) ==
    IF \E i \in 1..Len(include) :
           LET char == include[i]
           IN  ~(\/ (char >= 97 /\ char <= 122)
                 \/ (char >= 65 /\ char <= 90)
                 \/ (char >= 48 /\ char <= 57)
                 \/ char = 95 \/ char = 46)
    THEN FALSE
    ELSE Len(include) > 0

-----------------------------------------------------------------------------
(* Go values and the query object.                                         *)

\* An interface{} value: nil, or a value (here always a string).
Nil == [nil |-> TRUE, v |-> <<>>]

Value(v) == [nil |-> FALSE, v |-> v]

\* One builder call on a *gorm.DB: the method, its SQL text or name, its
\* bound arguments and, for Offset and Limit, its number.
Call(op, sql, args) == [op |-> op, sql |-> sql, args |-> args, n |-> 0]

\* query.Where(condition, args...)
Where(q, condition, args) == Append(q, Call("Where", condition, args))

\* query.Or(condition, args...)
Or(q, condition, args) == Append(q, Call("Or", condition, args))

-----------------------------------------------------------------------------
(* package strings, as pagination_query.go uses it (on ASCII text).        *)

\* strings.ToUpper
ToUpper(s) == [i \in 1..Len(s) |-> IF s[i] >= 97 /\ s[i] <= 122 THEN s[i] - 32 ELSE s[i]]

\* strings.EqualFold
EqualFold(s, t) == Len(s) = Len(t) /\ ToUpper(s) = ToUpper(t)

\* strings.HasPrefix
HasPrefix(s, prefix) ==
    Len(s) >= Len(prefix) /\ SubSeq(s, 1, Len(prefix)) = prefix

\* strings.TrimPrefix
TrimPrefix(s, prefix) ==
    IF HasPrefix(s, prefix) THEN SubSeq(s, Len(prefix) + 1, Len(s)) ELSE s

\* strings.Split(s, sep) for a one-character sep: the texts between the
\* separators, one more than there are separators.
Split(s, sep) ==
    LET cuts  == {i \in 1..Len(s) : s[i] = sep}
        edges == {0} \cup cuts \cup {Len(s) + 1}
        edge(k) == CHOOSE e \in edges : Cardinality({x \in edges : x < e}) = k
    IN  [k \in 1..(Cardinality(cuts) + 1) |->
            SubSeq(s, edge(k - 1) + 1, edge(k) - 1)]

-----------------------------------------------------------------------------
(* DynamicFilter (pagination_query.go).                                    *)

\* type FilterCondition struct
FilterCondition(field, operator, value, logic) ==
    [Field |-> field, Operator |-> operator, Value |-> value, Logic |-> logic]

\* A struct field as reflect shows it: its name and its gorm and json tags.
StructField(name, gormTag, jsonTag) ==
    [Name |-> name, gorm |-> gormTag, json |-> jsonTag]

\* func (d *DynamicFilter) extractColumnName(gormTag string) string
extractColumnName(gormTag) ==
    LET parts == Split(gormTag, 59)
        hits  == {k \in 1..Len(parts) : HasPrefix(parts[k], Lit.column_prefix)}
    IN  IF hits = {} THEN <<>>
        ELSE LET first == CHOOSE k \in hits : \A h \in hits : k <= h
             IN  TrimPrefix(parts[first], Lit.column_prefix)

\* func (d *DynamicFilter) extractJSONName(jsonTag string) string
extractJSONName(jsonTag) ==
    LET parts == Split(jsonTag, 44)
    IN  IF Len(parts) > 0 /\ parts[1] # Lit.dash THEN parts[1] ELSE <<>>

\* func (d *DynamicFilter) isValidField(fieldName string) bool
isValidField(d, fieldName) ==
    IF d.Model.nil THEN FALSE
    ELSE \E i \in 1..Len(d.Model.fields) :
            LET field == d.Model.fields[i]
            IN  \/ field.Name = fieldName
                \/ EqualFold(field.Name, fieldName)
                \/ extractColumnName(field.gorm) = fieldName
                \/ extractJSONName(field.json) = fieldName

\* func (d *DynamicFilter) buildCondition(filter FilterCondition) string
buildCondition(filter) ==
    LET op == ToUpper(filter.Operator)
    IN  CASE op \in {Lit.op_eq, Lit.op_EQ, Lit.op_EQUALS} -> filter.Field \o Lit.sql_eq
          [] op \in {Lit.op_ne, Lit.op_NE, Lit.op_NOT_EQUALS} -> filter.Field \o Lit.sql_ne
          [] op \in {Lit.op_gt, Lit.op_GT, Lit.op_GREATER_THAN} -> filter.Field \o Lit.sql_gt
          [] op \in {Lit.op_ge, Lit.op_GTE, Lit.op_GREATER_THAN_EQUALS} -> filter.Field \o Lit.sql_ge
          [] op \in {Lit.op_lt, Lit.op_LT, Lit.op_LESS_THAN} -> filter.Field \o Lit.sql_lt
          [] op \in {Lit.op_le, Lit.op_LTE, Lit.op_LESS_THAN_EQUALS} -> filter.Field \o Lit.sql_le
          [] op \in {Lit.op_LIKE, Lit.op_CONTAINS} -> filter.Field \o Lit.sql_like
          [] op \in {Lit.op_ILIKE, Lit.op_ICONTAINS} -> filter.Field \o Lit.sql_ilike
          [] op = Lit.op_IN -> filter.Field \o Lit.sql_in
          [] op = Lit.op_NOT_IN -> filter.Field \o Lit.sql_not_in
          [] op = Lit.op_IS_NULL -> filter.Field \o Lit.sql_is_null
          [] op = Lit.op_IS_NOT_NULL -> filter.Field \o Lit.sql_is_not_null
          [] OTHER -> filter.Field \o Lit.sql_eq

RECURSIVE ApplyFiltersFrom(_, _, _)
\* The loop of ApplyFilters from the filter at position i (1-based; the
\* code's index is i - 1) on.
ApplyFiltersFrom(d, i, query) ==
    IF i > Len(d.Filters) THEN query
    ELSE LET filter == d.Filters[i]
         IN  IF filter.Field = <<>> \/ filter.Value = Nil
             THEN ApplyFiltersFrom(d, i + 1, query)
             ELSE IF ~isValidField(d, filter.Field)
             THEN ApplyFiltersFrom(d, i + 1, query)
             ELSE LET condition == buildCondition(filter)
                  IN  IF condition = <<>>
                      THEN ApplyFiltersFrom(d, i + 1, query)
                      ELSE IF i - 1 = 0
                      THEN ApplyFiltersFrom(d, i + 1,
                               Where(query, condition, <<filter.Value>>))
                      ELSE IF ToUpper(filter.Logic) = Lit.OR
                      THEN ApplyFiltersFrom(d, i + 1,
                               Or(query, condition, <<filter.Value>>))
                      ELSE ApplyFiltersFrom(d, i + 1,
                               Where(query, condition, <<filter.Value>>))

\* func (d *DynamicFilter) ApplyFilters(query *gorm.DB) *gorm.DB
DynamicApplyFilters(d, query) == ApplyFiltersFrom(d, 1, query)

-----------------------------------------------------------------------------
(* The query builders (pagination.go).                                     *)

\* The builders of the model are SimpleQueryBuilders (kind "simple", with or
\* without a FilterFunc) and DynamicFilters (kind "dynamic"); provider tells
\* whether the builder also implements AllowedIncludesProvider, and allowed
\* is then its GetAllowedIncludes() map.
QueryBuilder(kind, defaultSort, searchFields, filterFunc, dynamic, provider, allowed) ==
    [kind |-> kind, TableName |-> Txt.posts, DefaultSort |-> defaultSort,
     SearchFields |-> searchFields, FilterFunc |-> filterFunc,
     dynamic |-> dynamic, provider |-> provider, allowed |-> allowed]

\* func (s *SimpleQueryBuilder) ApplyFilters(query *gorm.DB) *gorm.DB
\* The FilterFunc of the model, when there is one, adds one predicate.
SimpleApplyFilters(b, query) ==
    IF b.FilterFunc
    THEN Where(query, Txt.status_eq, <<Value(Txt.published)>>)
    ELSE query

\* builder.ApplyFilters(query)
ApplyFilters(b, query) ==
    IF b.kind = "dynamic" THEN DynamicApplyFilters(b.dynamic, query)
    ELSE SimpleApplyFilters(b, query)

\* func (s *SimpleQueryBuilder) GetDefaultSort() string, and
\* func (d *DynamicFilter) GetDefaultSort() string
GetDefaultSort(b) == IF b.DefaultSort = Lit.empty THEN Lit.id_asc ELSE b.DefaultSort

\* builder.GetSearchFields()
GetSearchFields(b) == b.SearchFields

\* builder.GetTableName()
GetTableName(b) == b.TableName

\* allowedIncludes[include] on a map[string]bool: false for a missing key.
MapLookup(m, key) == IF key \in DOMAIN m THEN m[key] ELSE FALSE

-----------------------------------------------------------------------------
(* Search, includes and window (pagination.go).                            *)

\* A mutant of getSearchOperator: PostgreSQL gets LIKE too.
getSearchOperator_AlwaysLike(dialect) == Lit.LIKE

\* func getSearchOperator(dialect DatabaseDialect) string
getSearchOperator(dialect) ==
    CASE dialect = "postgresql" -> Lit.ILIKE
      [] dialect \in {"mysql", "sqlite", "sqlserver"} -> Lit.LIKE
      [] OTHER -> Lit.LIKE

RECURSIVE Join(_, _)
\* strings.Join(elems, sep)
Join(elems, sep) ==
    IF elems = <<>> THEN <<>>
    ELSE IF Len(elems) = 1 THEN elems[1]
    ELSE elems[1] \o sep \o Join(Tail(elems), sep)

\* func applyAutoSearch(query, searchTerm, searchFields, dialect) *gorm.DB
applyAutoSearch(query, searchTerm, searchFields, dialect) ==
    IF Len(searchFields) = 0 \/ searchTerm = Lit.empty THEN query
    ELSE LET searchPattern == Lit.percent \o searchTerm \o Lit.percent
             operator == getSearchOperator(dialect)
         IN  IF Len(searchFields) = 1
             THEN Where(query,
                        searchFields[1] \o Lit.space \o operator \o Lit.placeholder,
                        <<Value(searchPattern)>>)
             ELSE LET conditions ==
                          [i \in 1..Len(searchFields) |->
                              searchFields[i] \o Lit.space \o operator
                                  \o Lit.placeholder]
                      args == [i \in 1..Len(searchFields) |-> Value(searchPattern)]
                      whereClause ==
                          Lit.lparen \o Join(conditions, Lit.or_sep) \o Lit.rparen
                  IN  Where(query, whereClause, args)

\* A mutant of validateIncludes: the allow-map is not consulted.
validateIncludes_SyntaxOnly(b, incs) == SelectSeq(incs, isValidInclude)

\* func validateIncludes(builder interface{}, includes []string) []string
validateIncludes(b, incs) ==
    IF b.provider
    THEN LET allowedIncludes == b.allowed
         IN  SelectSeq(incs, LAMBDA include :
                 isValidInclude(include) /\ MapLookup(allowedIncludes, include))
    ELSE SelectSeq(incs, isValidInclude)

\* func (p *PaginationRequest) GetOffset() int: the request as the call leaves
\* it, and the value returned.
GetOffset(p) ==
    LET p1 == IF p.Page <= 0 THEN [p EXCEPT !.Page = 1] ELSE p
    IN  [p |-> p1, val |-> (p1.Page - 1) * p1.PerPage]

\* func (p *PaginationRequest) GetLimit() int
GetLimit(p) ==
    LET p1 == IF p.PerPage <= 0 THEN [p EXCEPT !.PerPage = 10] ELSE p
    IN  [p |-> p1, val |-> p1.PerPage]

-----------------------------------------------------------------------------
(* The backend: gorm over the database.                                    *)

\* db.Table(name)
Table(name) == <<Call("Table", name, <<>>)>>

\* query.Raw(sql)
Raw(q, sql) == Append(q, Call("Raw", sql, <<>>))

\* query.Order(value)
Order(q, value) == Append(q, Call("Order", value, <<>>))

\* query.Offset(n)
Offset(q, n) == Append(q, [Call("Offset", <<>>, <<>>) EXCEPT !.n = n])

\* query.Limit(n)
Limit(q, n) == Append(q, [Call("Limit", <<>>, <<>>) EXCEPT !.n = n])

\* query.Preload(name)
Preload(q, name) == Append(q, Call("Preload", name, <<>>))

RECURSIVE PreloadAll(_, _)
\* for _, include := range validatedIncludes { dataQuery.Preload(include) }
PreloadAll(q, incs) ==
    IF incs = <<>> THEN q ELSE PreloadAll(Preload(q, Head(incs)), Tail(incs))

\* The calls of query q made with method op.
CallsOf(q, op) == SelectSeq(q, LAMBDA c : c.op = op)

\* Whether row r satisfies the predicates of q.  A row records what the
\* predicates of the model say of it: deleted (deleted_at is set), hit (it
\* matches the search pattern); the builder's own filters select every row
\* of the table.
Selects(q, r) ==
    \A i \in 1..Len(q) :
        (q[i].op = "Where" /\ q[i].sql = Lit.deleted_at_is_null => ~r.deleted)
        /\ (q[i].op = "Where" /\ q[i].args # <<>>
                /\ HasPrefix(q[i].args[1].v, Lit.percent) => r.hit)

\* The rows of t that q selects, in the table's order.
Selected(t, q) == SelectSeq(t, LAMBDA r : Selects(q, r))

\* The rows a successful Find yields: the selected rows after the window of
\* the Offset and Limit calls (gorm leaves out an offset or limit <= 0).
FoundRows(t, q) ==
    LET rows == Selected(t, q)
        offs == CallsOf(q, "Offset")
        lims == CallsOf(q, "Limit")
        skip == IF offs # <<>> /\ offs[Len(offs)].n > 0 THEN offs[Len(offs)].n ELSE 0
        rest == SubSeq(rows, skip + 1, Len(rows))
    IN  IF lims # <<>> /\ lims[Len(lims)].n > 0 /\ lims[Len(lims)].n < Len(rest)
        THEN SubSeq(rest, 1, lims[Len(lims)].n)
        ELSE rest

\* An error value: nil, or a message wrapping a cause (fmt.Errorf("...: %w")).
NoError == [nil |-> TRUE, msg |-> "", wraps |-> ""]

Errorf(msg, cause) == [nil |-> FALSE, msg |-> msg, wraps |-> cause]

\* A []T: nil, or a slice of rows.
NilSlice == [nil |-> TRUE, rows |-> <<>>]

Slice(rows) == [nil |-> FALSE, rows |-> rows]

\* The (result, total, error) of PaginatedQueryWithOptions.
Return(result, total, err) == [result |-> result, total |-> total, err |-> err]

-----------------------------------------------------------------------------
(* PaginatedQueryWithOptions (pagination.go).                              *)

\* Lines 281-288: the count query.
BuildCountQuery(b, opts) ==
    LET q1 == Table(GetTableName(b))
        q2 == ApplyFilters(b, q1)
    IN  IF opts.EnableSoftDelete
        THEN Where(q2, Lit.deleted_at_is_null, <<>>)
        ELSE q2

\* A mutant of the sort step: the caller's sort is used without validation.
ApplySort_Unvalidated(q, b, p) ==
    IF p.Sort # Lit.empty THEN Order(q, p.Sort \o Lit.space \o p.Order)
    ELSE Order(q, GetDefaultSort(b))

\* Lines 314-325: the sort step.
ApplySort(q, b, p) ==
    IF p.Sort # Lit.empty
    THEN IF isValidSortField(p.Sort)
         THEN LET orderClause == p.Sort \o Lit.space \o p.Order
              IN  Order(q, orderClause)
         ELSE Order(q, GetDefaultSort(b))
    ELSE Order(q, GetDefaultSort(b))

\* Line 328: the request as GetOffset and then GetLimit leave it.
AfterWindow(p) == GetLimit(GetOffset(p).p).p

\* Lines 301-334: the data query.
BuildDataQuery(b, p, incs, opts) ==
    LET q1 == Table(GetTableName(b))
        q2 == ApplyFilters(b, q1)
        q3 == IF p.Search # Lit.empty
              THEN applyAutoSearch(q2, p.Search, GetSearchFields(b), opts.Dialect)
              ELSE q2
        q4 == IF opts.EnableSoftDelete
              THEN Where(q3, Lit.deleted_at_is_null, <<>>)
              ELSE q3
        q5 == ApplySort(q4, b, p)
        off == GetOffset(p)
        lim == GetLimit(off.p)
        q6 == Limit(Offset(q5, off.val), lim.val)
    IN  PreloadAll(q6, validateIncludes(b, incs))

-----------------------------------------------------------------------------
(* Inputs of the pagination helpers.                                       *)

\* Characters of a raw numeric parameter: '0', '1', '-'.
RawAlphabet == {48, 49, 45}

\* Further raw texts: "a", "1a", "+1", "+", " 1", "1e1", "99", "+07".
RawSpecials ==
    { <<97>>, <<49, 97>>, <<43, 49>>, <<43>>, <<32, 49>>, <<49, 101, 49>>,
      <<57, 57>>, <<43, 48, 55>> }

RECURSIVE StringsUpTo(_, _)
\* All strings over alphabet A of length at most n.
StringsUpTo(A, n) ==
    IF n = 0 THEN {<<>>}
    ELSE LET shorter == StringsUpTo(A, n - 1)
         IN  shorter \cup {Append(s, c) : s \in shorter, c \in A}

RawNumbers ==
    {Absent} \cup {Present(s) : s \in StringsUpTo(RawAlphabet, MaxRawLen) \cup RawSpecials}

\* search, sort and order as they arrive together in one request.
RawTexts ==
    { <<Absent, Absent, Absent>>,
      <<Present(Txt.go), Present(Txt.name), Present(Lit.desc)>>,
      <<Present(Lit.empty), Present(Txt.name), Present(Lit.asc)>>,
      <<Absent, Present(Txt.name), Present(Txt.ASC)>>,
      <<Present(Txt.go), Absent, Present(Lit.empty)>> }

NoQuery ==
    [page |-> Absent, per_page |-> Absent, search |-> Absent, sort |-> Absent,
     order |-> Absent]

NoRequest == PaginationRequest(0, 0, Lit.empty, Lit.empty, Lit.empty)

\* Hand-built requests (never bound from a query): any Page and PerPage
\* around the limits the code tests, any Order text.
AnyPerPage == {0 - 1, 0, 1, 10, 100, 101}

AnyOrder == {Lit.empty, Lit.asc, Lit.desc, Txt.ASC, Txt.name}

AnyRequests ==
    { PaginationRequest(pg, pp, Txt.go, Txt.name, o) :
        pg \in (0 - MaxPage)..MaxPage, pp \in AnyPerPage, o \in AnyOrder }

\* Totals: the small ones, and those next to a power of two 2^e.
MaxTotal == 12

BigExponents == {47, 52, 53, 54, 62}

Pow2Plus(e, k) == <<1>> \o Zeros(e - Len(Bits(k))) \o Bits(k)

Totals ==
    {Bits(n) : n \in 0..MaxTotal}
        \cup {Pow2Plus(e, k) : e \in BigExponents, k \in 0..MaxTotal}

\* Requests as CalculatePagination receives them: validated.
CalcPerPage == {1, 2, 3, 7, 10, 100}

CalcRequests ==
    { PaginationRequest(pg, pp, Txt.go, Txt.name, Lit.asc) :
        pg \in 1..MaxPage, pp \in CalcPerPage }

NoResponse == PaginationResponse(0, 0, <<>>, <<>>)

\* Candidate identifiers: every string of up to MaxIdentLen characters taken
\* from both sides of each character range the validators test ('/', '0',
\* '9', ':', '@', 'A', 'Z', '[', '_', '`', 'a', 'z', '{', '.', '-', ';',
\* ' ', U+00E9, and U+FFFD, which ranging over invalid UTF-8 yields), and
\* the identifiers the documentation names.
IdentAlphabet ==
    {47, 48, 57, 58, 64, 65, 90, 91, 95, 96, 97, 122, 123, 46, 45, 59, 32,
     233, 65533}

IdentSamples == {Txt.created_at, Txt.user_name, Txt.injection}

Candidates == StringsUpTo(IdentAlphabet, MaxIdentLen) \cup IdentSamples

\* Models of a DynamicFilter: none, the RefreshToken entity
\* (refresh_token_entity.go; Timestamp is its embedded struct, without
\* tags), and a struct whose one field names its column and its JSON key.
NilModel == [nil |-> TRUE, fields |-> <<>>]

RefreshTokenModel ==
    [nil |-> FALSE,
     fields |-> << StructField(Txt.ID, Txt.tag_uuid_pk, Txt.id),
                   StructField(Txt.UserID, Txt.tag_uuid_notnull, Txt.user_id),
                   StructField(Txt.User, Txt.tag_fk, Lit.dash),
                   StructField(Txt.Timestamp, <<>>, <<>>) >>]

AliasedModel ==
    [nil |-> FALSE,
     fields |-> << StructField(Txt.Title, Txt.tag_text_column, Txt.tag_title_omitempty) >>]

FilterModels == {NilModel, RefreshTokenModel, AliasedModel}

\* Conditions tried one at a time: every combination of these fields,
\* operators, values and logic tags.
SampleFields ==
    {<<>>, Txt.ID, Txt.id, Txt.UserID, Txt.user_id, Txt.userid, Txt.User,
     Lit.dash, Txt.Timestamp, Txt.Title, Txt.post_title, Txt.title, Txt.nope,
     Txt.id_drop}

SampleOperators ==
    {<<>>, Lit.op_eq, Txt.op_eq_lower, Lit.op_NOT_IN, Txt.op_like_lower, Lit.op_IS_NULL,
     Txt.op_is_not_null_lower, Txt.op_bogus}

SampleLogics == {<<>>, Txt.AND, Lit.OR, Txt.or, Txt.Or, Txt.xor}

SampleConditions ==
    { FilterCondition(f, o, v, l) :
        f \in SampleFields, o \in SampleOperators, v \in {Nil, Value(Txt.x)},
        l \in SampleLogics }

\* Conditions combined into lists of up to MaxFilters.
ListedConditions ==
    { FilterCondition(Txt.ID, Lit.op_eq, Value(Txt.x), Lit.OR),
      FilterCondition(Txt.user_id, Txt.op_like_lower, Value(Txt.x), Txt.or),
      FilterCondition(Txt.id, Lit.op_ge, Value(Txt.x), Txt.AND),
      FilterCondition(<<>>, Lit.op_eq, Value(Txt.x), Txt.AND),
      FilterCondition(Txt.nope, Lit.op_eq, Value(Txt.x), Lit.OR),
      FilterCondition(Txt.ID, Lit.op_IS_NULL, Nil, Lit.OR),
      FilterCondition(Txt.UserID, Lit.op_eq, Nil, <<>>) }

RECURSIVE ListsUpTo(_, _)
\* All sequences of at most n elements of S.
ListsUpTo(S, n) ==
    IF n = 0 THEN {<<>>}
    ELSE LET shorter == ListsUpTo(S, n - 1)
         IN  shorter \cup {Append(l, x) : l \in shorter, x \in S}

DynamicFilter(filters, model) == [Filters |-> filters, Model |-> model]

DynamicFilters ==
    {DynamicFilter(<<c>>, m) : c \in SampleConditions, m \in FilterModels}
        \cup {DynamicFilter(l, m) : l \in ListsUpTo(ListedConditions, MaxFilters),
                                    m \in {NilModel, RefreshTokenModel}}

NoFilter == DynamicFilter(<<>>, NilModel)

-----------------------------------------------------------------------------
(* Inputs of PaginatedQueryWithOptions.                                    *)

\* What the backend reports when a query fails.
BackendError == "backend error"

\* Rows of the table: deleted_at set or not, matching the search or not.
Row(deleted, hit) == [deleted |-> deleted, hit |-> hit]

Tables == { << Row(FALSE, TRUE), Row(FALSE, FALSE), Row(TRUE, TRUE) >> }

\* The first n of the search fields a builder may declare.
DeclaredFields == << Txt.title, Txt.body, Txt.excerpt >>

SearchFieldLists == { SubSeq(DeclaredFields, 1, n) : n \in 0..MaxSearchFields }

\* Allow-maps of a builder that implements AllowedIncludesProvider.
AllowMaps ==
    { <<>>,
      [k \in {Txt.author, Txt.tags, Txt.bad_include} |-> k # Txt.tags] }

\* A DynamicFilter used as builder: one accepted condition, one rejected.
BuilderFilter ==
    DynamicFilter(<< FilterCondition(Txt.nope, Lit.op_eq, Value(Txt.x), Txt.AND),
                     FilterCondition(Txt.ID, Lit.op_eq, Value(Txt.x), Lit.OR) >>,
                  RefreshTokenModel)

Builders ==
    { QueryBuilder("simple", Lit.empty, f, FALSE, NoFilter, FALSE, <<>>) :
          f \in SearchFieldLists }
    \cup { QueryBuilder("simple", Txt.created_at_desc, f, TRUE, NoFilter, TRUE, m) :
               f \in SearchFieldLists, m \in AllowMaps }
    \cup { QueryBuilder("dynamic", Lit.empty, f, FALSE, BuilderFilter, FALSE, <<>>) :
               f \in SearchFieldLists }

\* Requests as a caller may hand them over: bound from a query string, or
\* built by hand and never validated.
RequestShapes ==
    { <<1, 2, Lit.empty, Lit.asc>>,
      <<2, 2, Txt.name, Lit.desc>>,
      <<2, 2, Lit.empty, Lit.desc>>,
      <<1, 2, Txt.injection, Lit.asc>>,
      <<0, 0, Txt.injection, Lit.desc>>,
      <<2, -5, Txt.name, Txt.bad_order>> }

Paginations ==
    { PaginationRequest(r[1], r[2], sr, r[3], r[4]) :
          r \in RequestShapes, sr \in {Lit.empty, Txt.go} }

IncludeNames == { Txt.author, Txt.tags, Txt.bad_include }

IncludeLists == ListsUpTo(IncludeNames, MaxIncludes)

\* type PaginatedQueryOptions struct
PaginatedQueryOptions(dialect, softDelete, customCount) ==
    [Dialect |-> dialect, EnableSoftDelete |-> softDelete,
     CustomCountQuery |-> customCount]

\* The four DatabaseDialect constants and one value that is none of them.
Dialects == { "mysql", "postgresql", "sqlite", "sqlserver", "oracle" }

Options ==
    { PaginatedQueryOptions(d, FALSE, Lit.empty) : d \in Dialects }
    \cup { PaginatedQueryOptions("postgresql", TRUE, Txt.custom_count),
           PaginatedQueryOptions("sqlite", FALSE, Txt.custom_count),
           PaginatedQueryOptions("mysql", TRUE, Lit.empty) }

\* What a caller's own count statement may report.
CustomCounts == 0..MaxCustomCount

NoReturn == Return(NilSlice, 0, NoError)

-----------------------------------------------------------------------------
(* The entry points for an IncludableQueryBuilder (pagination.go).         *)

\* A nil *gorm.DB.
NilDB == "nil"

\* An IncludableQueryBuilder: what GetPagination() and GetIncludes() return,
\* whether it also implements DatabaseProvider and what GetDB() then returns.
IncludableQueryBuilder(p, incs, provider, getDB) ==
    [Pagination |-> p, Includes |-> incs, DatabaseProvider |-> provider,
     GetDB |-> getDB]

\* How a call ends: it returns (result, total, error) by itself, it panics,
\* or it hands over to PaginatedQueryWithOptions with a usable connection,
\* which then builds the count query and the data query on it.
Outcome(kind, r, db, p, incs, opts) ==
    [kind |-> kind, ret |-> r, countDb |-> db, dataDb |-> db,
     pagination |-> p, includes |-> incs, options |-> opts]

NoOutcome ==
    Outcome("none", NoReturn, NilDB, NoRequest, <<>>,
            PaginatedQueryOptions("mysql", FALSE, Lit.empty))

Returned(r) == [NoOutcome EXCEPT !.kind = "returned", !.ret = r]

Panicked == [NoOutcome EXCEPT !.kind = "panic"]

Delegated(db, p, incs, opts) == Outcome("delegated", NoReturn, db, p, incs, opts)

\* PaginatedQueryWithOptions seen from its caller: line 282 calls db.Table,
\* a method that dereferences its receiver, before anything else is done
\* with db; line 302 calls db.Table again for the data query.
PaginatedQueryWithOptionsOn(db, p, incs, opts) ==
    IF db = NilDB THEN Panicked ELSE Delegated(db, p, incs, opts)

\* Line 239: return nil, 0, fmt.Errorf("database connection not provided")
NotProvided == Return(NilSlice, 0, Errorf("database connection not provided", ""))

\* func PaginatedQueryWithIncludable[T any](db, builder) ([]T, int64, error):
\* the builder's methods called, and how the call ends.
PaginatedQueryWithIncludable(db, b) ==
    IF db = NilDB /\ ~b.DatabaseProvider
    THEN [calls |-> <<>>, outcome |-> Returned(NotProvided)]
    ELSE LET db1 == IF db = NilDB THEN b.GetDB ELSE db
             first == IF db = NilDB THEN <<"GetDB">> ELSE <<>>
         IN  [calls |-> first \o <<"Validate", "GetPagination", "GetIncludes">>,
              outcome |-> PaginatedQueryWithOptionsOn(db1, b.Pagination, b.Includes,
                              PaginatedQueryOptions("mysql", FALSE, Lit.empty))]

\* func PaginatedQueryWithIncludableAndOptions[T any](db, builder, options)
PaginatedQueryWithIncludableAndOptions(db, b, opts) ==
    [calls |-> <<"Validate", "GetPagination", "GetIncludes">>,
     outcome |-> PaginatedQueryWithOptionsOn(db, b.Pagination, b.Includes, opts)]

\* The builders handed to the entry points.
IncludableBuilders ==
    { IncludableQueryBuilder(p, incs, FALSE, NilDB) :
          p \in Paginations, incs \in IncludeLists }
    \cup { IncludableQueryBuilder(p, incs, TRUE, g) :
               p \in Paginations, incs \in IncludeLists,
               g \in {"builder_db", NilDB} }

-----------------------------------------------------------------------------
(* Operations of the pagination helpers.                                   *)

PgIdle ==
    /\ pgOp = "idle"
    /\ pgQuery = NoQuery
    /\ pgRequest = NoRequest
    /\ pgResult = NoRequest
    /\ pgTotal = <<>>
    /\ pgResponse = NoResponse

VdIdle ==
    /\ vdInput = <<>>
    /\ vdDone = {"idle"}
    /\ vdSort = FALSE
    /\ vdInclude = FALSE

DfIdle ==
    /\ dfOp = "idle"
    /\ dfFilter = NoFilter
    /\ dfQuery = <<>>

ExIdle ==
    /\ pc = "idle"
    /\ table = <<>>
    /\ builder = QueryBuilder("simple", Lit.empty, <<>>, FALSE, NoFilter, FALSE, <<>>)
    /\ pagination = NoRequest
    /\ includes = <<>>
    /\ options = PaginatedQueryOptions("mysql", FALSE, Lit.empty)
    /\ countQuery = <<>>
    /\ dataQuery = <<>>
    /\ totalCount = 0
    /\ executed = <<>>
    /\ ret = NoReturn

EpIdle ==
    /\ epOp = "idle"
    /\ epDb = NilDB
    /\ epBuilder = IncludableQueryBuilder(NoRequest, <<>>, FALSE, NilDB)
    /\ epOptions = PaginatedQueryOptions("mysql", FALSE, Lit.empty)
    /\ epCalls = <<>>
    /\ epOutcome = NoOutcome

\* One call of a helper: the arguments are fixed when the call is made and
\* the helper then runs once.
InitPagination ==
    /\ pgResult = NoRequest
    /\ pgResponse = NoResponse
    /\ \/ /\ pgOp = "call_bind"
          /\ pgRequest = NoRequest
          /\ pgTotal = <<>>
          /\ \E pg \in RawNumbers, pp \in RawNumbers, t \in RawTexts :
                pgQuery = [page |-> pg, per_page |-> pp, search |-> t[1],
                           sort |-> t[2], order |-> t[3]]
       \/ /\ pgOp = "call_validate"
          /\ pgQuery = NoQuery
          /\ pgTotal = <<>>
          /\ pgRequest \in AnyRequests
       \/ /\ pgOp = "call_calc"
          /\ pgQuery = NoQuery
          /\ pgRequest \in CalcRequests
          /\ pgTotal \in Totals
    /\ VdIdle /\ DfIdle /\ ExIdle /\ EpIdle

\* An HTTP request's query string is bound.
DoBindPagination ==
    /\ pgOp = "call_bind"
    /\ pgOp' = "bind"
    /\ pgResult' = BindPagination(pgQuery)
    /\ UNCHANGED <<pgQuery, pgRequest, pgTotal, pgResponse>>
    /\ UNCHANGED <<vdVars, dfVars, exVars, epVars>>

\* Validate() is called on a request built by the caller.
DoValidate ==
    /\ pgOp = "call_validate"
    /\ pgOp' = "validate"
    /\ pgResult' = Validate(pgRequest)
    /\ UNCHANGED <<pgQuery, pgRequest, pgTotal, pgResponse>>
    /\ UNCHANGED <<vdVars, dfVars, exVars, epVars>>

\* The response envelope's pagination block is computed.
DoCalculatePagination ==
    /\ pgOp = "call_calc"
    /\ pgOp' = "calc"
    /\ pgResponse' = CalculatePagination(pgRequest, pgTotal)
    /\ UNCHANGED <<pgQuery, pgRequest, pgTotal, pgResult>>
    /\ UNCHANGED <<vdVars, dfVars, exVars, epVars>>

NextPagination == DoBindPagination \/ DoValidate \/ DoCalculatePagination

SpecPagination == InitPagination /\ [][NextPagination]_vars

-----------------------------------------------------------------------------
(* Operations of the identifier validators.                                *)

\* A candidate is fixed; each validator then runs on it once, in any order.
InitValidators ==
    /\ vdInput \in Candidates
    /\ vdDone = {}
    /\ vdSort = FALSE
    /\ vdInclude = FALSE
    /\ PgIdle /\ DfIdle /\ ExIdle /\ EpIdle

DoIsValidSortField ==
    /\ "sort" \notin vdDone /\ "idle" \notin vdDone
    /\ vdSort' = isValidSortField(vdInput)
    /\ vdDone' = vdDone \cup {"sort"}
    /\ UNCHANGED <<vdInput, vdInclude>>
    /\ UNCHANGED <<pgVars, dfVars, exVars, epVars>>

DoIsValidInclude ==
    /\ "include" \notin vdDone /\ "idle" \notin vdDone
    /\ vdInclude' = isValidInclude(vdInput)
    /\ vdDone' = vdDone \cup {"include"}
    /\ UNCHANGED <<vdInput, vdSort>>
    /\ UNCHANGED <<pgVars, dfVars, exVars, epVars>>

NextValidators == DoIsValidSortField \/ DoIsValidInclude

SpecValidators == InitValidators /\ [][NextValidators]_vars

-----------------------------------------------------------------------------
(* Operations of the dynamic filter.                                       *)

\* A DynamicFilter is built by the caller and applied once to a fresh query.
InitFilter ==
    /\ dfOp = "call"
    /\ dfFilter \in DynamicFilters
    /\ dfQuery = <<>>
    /\ PgIdle /\ VdIdle /\ ExIdle /\ EpIdle

DoApplyFilters ==
    /\ dfOp = "call"
    /\ dfOp' = "applied"
    /\ dfQuery' = DynamicApplyFilters(dfFilter, <<>>)
    /\ UNCHANGED dfFilter
    /\ UNCHANGED <<pgVars, vdVars, exVars, epVars>>

NextFilter == DoApplyFilters

SpecFilter == InitFilter /\ [][NextFilter]_vars

-----------------------------------------------------------------------------
(* Operations of PaginatedQueryWithOptions.                                *)

\* One call: the caller supplies the builder, the request, the includes and
\* the options; the table holds whatever it holds.
Init ==
    /\ pc = "start"
    /\ table \in Tables
    /\ builder \in Builders
    /\ pagination \in Paginations
    /\ includes \in IncludeLists
    /\ options \in Options
    /\ countQuery = <<>>
    /\ dataQuery = <<>>
    /\ totalCount = 0
    /\ executed = <<>>
    /\ ret = NoReturn
    /\ PgIdle /\ VdIdle /\ DfIdle /\ EpIdle

\* One query handed to the backend, and whether it succeeded.
Executed(query, ok) == [query |-> query, ok |-> ok]

\* A mutant of CountFailed: the failure is reported as a fetch failure.
CountFailed_WrongPhase(err) ==
    Return(NilSlice, 0, Errorf("failed to fetch records", err))

\* Lines 297-299: return nil, 0, fmt.Errorf("failed to count records: %w", err)
CountFailed(err) == Return(NilSlice, 0, Errorf("failed to count records", err))

\* A mutant of FindFailed: the count already obtained is returned.
FindFailed_KeepsTotal(err) ==
    Return(NilSlice, totalCount, Errorf("failed to fetch records", err))

\* Lines 338-340: return nil, 0, fmt.Errorf("failed to fetch records: %w", err)
FindFailed(err) == Return(NilSlice, 0, Errorf("failed to fetch records", err))

\* Lines 290-295: the count statement, with the caller's own SQL if given.
CountStatement(q, opts) ==
    IF opts.CustomCountQuery # Lit.empty THEN Raw(q, opts.CustomCountQuery) ELSE q

\* Lines 281-299, the backend failing: the call returns at once.
CountFails ==
    /\ pc = "start"
    /\ countQuery' = CountStatement(BuildCountQuery(builder, options), options)
    /\ executed' = Append(executed, Executed("count", FALSE))
    /\ ret' = CountFailed(BackendError)
    /\ pc' = "returned"
    /\ UNCHANGED <<table, builder, pagination, includes, options, dataQuery,
                   totalCount>>
    /\ UNCHANGED <<pgVars, vdVars, dfVars, epVars>>

\* Lines 281-299, the backend answering: totalCount is stored.
CountSucceeds ==
    /\ pc = "start"
    /\ LET q == BuildCountQuery(builder, options)
       IN  /\ countQuery' = CountStatement(q, options)
           /\ IF options.CustomCountQuery # Lit.empty
              THEN totalCount' \in CustomCounts
              ELSE totalCount' = Len(Selected(table, q))
    /\ executed' = Append(executed, Executed("count", TRUE))
    /\ pc' = "counted"
    /\ UNCHANGED <<table, builder, pagination, includes, options, dataQuery, ret>>
    /\ UNCHANGED <<pgVars, vdVars, dfVars, epVars>>

\* Lines 301-340, the backend failing on Find.
FindFails ==
    /\ pc = "counted"
    /\ dataQuery' = BuildDataQuery(builder, pagination, includes, options)
    /\ pagination' = AfterWindow(pagination)
    /\ executed' = Append(executed, Executed("find", FALSE))
    /\ ret' = FindFailed(BackendError)
    /\ pc' = "returned"
    /\ UNCHANGED <<table, builder, includes, options, countQuery, totalCount>>
    /\ UNCHANGED <<pgVars, vdVars, dfVars, epVars>>

\* Lines 301-342, the backend answering: return result, totalCount, nil.
FindSucceeds ==
    /\ pc = "counted"
    /\ dataQuery' = BuildDataQuery(builder, pagination, includes, options)
    /\ pagination' = AfterWindow(pagination)
    /\ ret' = Return(Slice(FoundRows(table, dataQuery')), totalCount, NoError)
    /\ executed' = Append(executed, Executed("find", TRUE))
    /\ pc' = "returned"
    /\ UNCHANGED <<table, builder, includes, options, countQuery, totalCount>>
    /\ UNCHANGED <<pgVars, vdVars, dfVars, epVars>>

Next == CountFails \/ CountSucceeds \/ FindFails \/ FindSucceeds

Spec == Init /\ [][Next]_vars

-----------------------------------------------------------------------------
(* Operations of the entry points for an IncludableQueryBuilder.           *)

\* One call of one of the two entry points.
InitEntry ==
    /\ epDb \in {NilDB, "db"}
    /\ epBuilder \in IncludableBuilders
    /\ \/ /\ epOp = "call_includable"
          /\ epOptions = PaginatedQueryOptions("mysql", FALSE, Lit.empty)
       \/ /\ epOp = "call_options"
          /\ epOptions \in { PaginatedQueryOptions("postgresql", TRUE, Lit.empty),
                             PaginatedQueryOptions("sqlite", FALSE, Txt.custom_count) }
    /\ epCalls = <<>>
    /\ epOutcome = NoOutcome
    /\ PgIdle /\ VdIdle /\ DfIdle /\ ExIdle

DoPaginatedQueryWithIncludable ==
    /\ epOp = "call_includable"
    /\ epOp' = "done"
    /\ epCalls' = PaginatedQueryWithIncludable(epDb, epBuilder).calls
    /\ epOutcome' = PaginatedQueryWithIncludable(epDb, epBuilder).outcome
    /\ UNCHANGED <<epDb, epBuilder, epOptions>>
    /\ UNCHANGED <<pgVars, vdVars, dfVars, exVars>>

DoPaginatedQueryWithIncludableAndOptions ==
    /\ epOp = "call_options"
    /\ epOp' = "done"
    /\ epCalls' = PaginatedQueryWithIncludableAndOptions(epDb, epBuilder, epOptions).calls
    /\ epOutcome' = PaginatedQueryWithIncludableAndOptions(epDb, epBuilder, epOptions).outcome
    /\ UNCHANGED <<epDb, epBuilder, epOptions>>
    /\ UNCHANGED <<pgVars, vdVars, dfVars, exVars>>

NextEntry == DoPaginatedQueryWithIncludable \/ DoPaginatedQueryWithIncludableAndOptions

SpecEntry == InitEntry /\ [][NextEntry]_vars

-----------------------------------------------------------------------------
(* Properties of the pagination helpers.                                   *)

RECURSIVE Itoa(_)
\* The decimal text of a natural number, without sign or leading zeros.
Itoa(n) ==
    IF n < 10 THEN <<48 + n>> ELSE Append(Itoa(n \div 10), 48 + (n % 10))

\* The decimal texts of the per-page values the binder accepts.
PerPageNumerals == {Itoa(n) : n \in 1..100}

\* s writes a number of 1..100 in decimal: an optional '+', any number of
\* leading zeros, then the digits of the number.
WritesPerPage(s) ==
    \E sign \in {<<>>, <<43>>} :
        \E k \in 0..Len(s) :
            LET lead == sign \o [i \in 1..k |-> 48]
            IN  /\ Len(s) >= Len(lead)
                /\ SubSeq(s, 1, Len(lead)) = lead
                /\ SubSeq(s, Len(lead) + 1, Len(s)) \in PerPageNumerals

\* s writes some number greater than zero: an optional '+' and then digits,
\* one of them not '0'.
IsPositiveNumeral(s) ==
    LET body == IF s # <<>> /\ s[1] = 43 THEN Tail(s) ELSE s
    IN  /\ body # <<>>
        /\ \A i \in 1..Len(body) : body[i] \in 48..57
        /\ \E i \in 1..Len(body) : body[i] # 48

RawText(param) == IF param.present THEN param.value ELSE <<>>

\* C1: whatever the raw page, per_page, search, sort and order parameters
\* (absent, empty, non-numeric, zero, negative, above 100), the request that
\* BindPagination returns has Page >= 1, 1 <= PerPage <= 100 and Order "asc"
\* or "desc"; a page that does not write a number > 0 leaves Page = 1, and a
\* per_page that does not write a number in 1..100 leaves PerPage = 10.
C1_BindPaginationInRange ==
    pgOp = "bind" =>
        /\ pgResult.Page >= 1
        /\ pgResult.PerPage >= 1 /\ pgResult.PerPage <= 100
        /\ pgResult.Order \in {Lit.asc, Lit.desc}
        /\ ~IsPositiveNumeral(RawText(pgQuery.page)) => pgResult.Page = 1
        /\ ~WritesPerPage(RawText(pgQuery.per_page)) => pgResult.PerPage = 10

\* C1 witness: per_page=101 and page=-1 were bound, and the defaults stayed.
C1_Witness ==
    /\ pgOp = "bind"
    /\ pgQuery.per_page = Present(<<49, 48, 49>>)
    /\ pgQuery.page = Present(<<45, 49>>)
    /\ pgQuery.order = Present(Txt.ASC)
    /\ pgResult.Page = 1 /\ pgResult.PerPage = 10
    /\ pgResult.Order = Lit.asc

\* C2: after Validate() on any request, Page >= 1, 1 <= PerPage <= 100, and
\* Order is "asc" or "desc" (any other Order became "asc").
C2_ValidateInRange ==
    pgOp = "validate" =>
        /\ pgResult.Page >= 1
        /\ pgResult.PerPage >= 1 /\ pgResult.PerPage <= 100
        /\ pgResult.Order \in {Lit.asc, Lit.desc}
        /\ pgRequest.Order \notin {Lit.asc, Lit.desc} => pgResult.Order = Lit.asc

\* max(1, ceil(n / d)) of a numeral n and d > 0, in exact integer arithmetic.
ExactMaxPage(n, d) ==
    LET dv == LongDiv(n, d, 0)
        q  == StripZeros(dv.q)
        c  == IF dv.r = 0 THEN q ELSE IncBits(q)
    IN  IF c = <<>> THEN <<1>> ELSE c

\* C3: for every totalCount >= 0 and every request with 1 <= PerPage <= 100,
\* CalculatePagination returns MaxPage = max(1, ceil(totalCount / PerPage))
\* (1 when totalCount = 0), and Page, PerPage and Total unchanged.
C3_MaxPageIsCeiling ==
    pgOp = "calc" =>
        /\ pgResponse.MaxPage = ExactMaxPage(pgTotal, pgRequest.PerPage)
        /\ pgTotal = <<>> => pgResponse.MaxPage = <<1>>
        /\ pgResponse.Page = pgRequest.Page
        /\ pgResponse.PerPage = pgRequest.PerPage
        /\ pgResponse.Total = pgTotal

-----------------------------------------------------------------------------
(* Properties of the identifier validators.                                *)

\* The characters of an identifier: ASCII letters and digits, '_' and '.'.
IdentChars == (65..90) \cup (97..122) \cup (48..57) \cup {95, 46}

IsIdentifier(s) == s # <<>> /\ {s[i] : i \in 1..Len(s)} \subseteq IdentChars

\* C4: isValidSortField and isValidInclude each return true exactly for the
\* non-empty strings made only of ASCII letters, ASCII digits, '_' and '.',
\* and so agree on every input.
C4_ValidatorsAcceptIdentifiers ==
    /\ "sort" \in vdDone => (vdSort <=> IsIdentifier(vdInput))
    /\ "include" \in vdDone => (vdInclude <=> IsIdentifier(vdInput))
    /\ vdDone = {"sort", "include"} => (vdSort <=> vdInclude)

\* C4 witness: both validators ran on "created_at;DROP TABLE x" and both
\* rejected it.
C4_Witness ==
    /\ vdDone = {"sort", "include"}
    /\ vdInput = Txt.injection
    /\ ~vdSort /\ ~vdInclude

-----------------------------------------------------------------------------
(* Properties of the dynamic filter.                                       *)

\* The conditions of d that ApplyFilters does not skip, in their order: those
\* that, alone in a filter, add a predicate.
Contributing(d) ==
    SelectSeq(d.Filters,
              LAMBDA f : DynamicApplyFilters([d EXCEPT !.Filters = <<f>>], <<>>) # <<>>)

\* C7: the first condition that contributes a predicate is combined with
\* Where (AND) whatever its Logic and whatever was skipped before it; every
\* later contributing condition is combined with Or exactly when its Logic
\* is "OR" in any letter case, and with Where otherwise.
C7_FirstContributingIsAnd ==
    dfOp = "applied" =>
        LET cs == Contributing(dfFilter)
        IN  /\ Len(dfQuery) = Len(cs)
            /\ \A k \in 1..Len(cs) :
                  dfQuery[k].op =
                      IF k = 1 THEN "Where"
                      ELSE IF EqualFold(cs[k].Logic, Lit.OR) THEN "Or"
                      ELSE "Where"

\* The operator is a null check.
IsNullCheck(operator) == ToUpper(operator) \in {Lit.op_IS_NULL, Lit.op_IS_NOT_NULL}

\* The conditions C8 says are skipped.
ShouldSkip(d, f) ==
    \/ f.Field = <<>>
    \/ ~isValidField(d, f.Field)
    \/ (f.Value = Nil /\ ~IsNullCheck(f.Operator))

\* C8: a condition is skipped exactly when its Field is empty, its Field
\* matches no declared field of the Model, or its Value is nil while its
\* operator is no null check; a null check with a valid Field and a nil
\* Value contributes "<field> IS NULL" / "<field> IS NOT NULL".
C8_SkippedExactlyWhen ==
    dfOp = "applied" =>
        /\ Len(dfQuery)
             = Cardinality({i \in 1..Len(dfFilter.Filters) :
                               ~ShouldSkip(dfFilter, dfFilter.Filters[i])})
        /\ \A f \in {dfFilter.Filters[i] : i \in 1..Len(dfFilter.Filters)} :
              (Len(dfFilter.Filters) = 1 /\ ~ShouldSkip(dfFilter, f)
                    /\ IsNullCheck(f.Operator))
                 => dfQuery[1].sql
                      = f.Field \o (IF ToUpper(f.Operator) = Lit.op_IS_NULL
                                    THEN Lit.sql_is_null ELSE Lit.sql_is_not_null)

-----------------------------------------------------------------------------
(* Properties of PaginatedQueryWithOptions.                                *)

\* The data query has been built and handed to the backend.
DataQueryBuilt == Len(executed) = 2

\* The Order calls of the data query.
OrderCalls == CallsOf(dataQuery, "Order")

\* The caller's sort is present and isValidSortField rejects it.
InvalidSort == pagination.Sort # Lit.empty /\ ~isValidSortField(pagination.Sort)

\* An error is returned only when the backend failed on one of the queries.
ErrorOnlyFromBackend ==
    ~ret.err.nil => \E i \in 1..Len(executed) : ~executed[i].ok

\* C5: the data query receives exactly one ORDER directive, "<Sort> <Order>"
\* when Sort is non-empty and passes isValidSortField and the builder's
\* default sort otherwise; an invalid Sort produces no error and prevents
\* neither the count query nor the data query from executing.
C5_OneOrderDirective ==
    /\ DataQueryBuilt =>
          /\ Len(OrderCalls) = 1
          /\ OrderCalls[1].sql =
                IF pagination.Sort # Lit.empty /\ isValidSortField(pagination.Sort)
                THEN pagination.Sort \o Lit.space \o pagination.Order
                ELSE GetDefaultSort(builder)
    /\ InvalidSort =>
          /\ ErrorOnlyFromBackend
          /\ pc = "returned" => /\ Len(executed) >= 1
                                /\ executed[1].ok => DataQueryBuilt

\* An injected sort fell back to the default sort and the call succeeded.
C5_Witness ==
    /\ pc = "returned"
    /\ pagination.Sort = Txt.injection
    /\ DataQueryBuilt
    /\ OrderCalls = <<Call("Order", Txt.created_at_desc, <<>>)>>
    /\ ret.err.nil

\* The names the data query preloads, in the order of the calls.
PreloadNames ==
    LET calls == CallsOf(dataQuery, "Preload")
    IN  [i \in 1..Len(calls) |-> calls[i].sql]

\* The positions of the requested includes that are to be kept.
KeptIncludes ==
    { i \in 1..Len(includes) :
        /\ isValidInclude(includes[i])
        /\ builder.provider =>
              /\ includes[i] \in DOMAIN builder.allowed
              /\ builder.allowed[includes[i]] }

\* C6: the Preload directives of the data query are exactly the requested
\* includes that pass isValidInclude and, for a builder that implements
\* AllowedIncludesProvider, map to true in its allow-map, in the order
\* requested; rejected includes are dropped without an error.
C6_PreloadsAreFilteredIncludes ==
    /\ DataQueryBuilt =>
          /\ Len(PreloadNames) = Cardinality(KeptIncludes)
          /\ \A i \in KeptIncludes :
                PreloadNames[Cardinality({j \in KeptIncludes : j <= i})] = includes[i]
    /\ Cardinality(KeptIncludes) < Len(includes) => ErrorOnlyFromBackend

\* A provider's allow-map dropped one of two requested includes.
C6_Witness ==
    /\ pc = "returned"
    /\ builder.provider
    /\ includes = <<Txt.tags, Txt.author>>
    /\ PreloadNames = <<Txt.author>>
    /\ ret.err.nil

\* The predicates of the data query that are neither the builder's filters
\* nor the soft-delete exclusion.
SearchPredicates ==
    LET filters == ApplyFilters(builder, Table(GetTableName(builder)))
    IN  SelectSeq(dataQuery, LAMBDA c :
            /\ c.op \in {"Where", "Or"}
            /\ \A i \in 1..Len(filters) : filters[i] # c
            /\ c.sql # Lit.deleted_at_is_null)

\* The comparison of one search field under the options' dialect.
Comparison(field) ==
    field \o Lit.space
          \o (IF options.Dialect = "postgresql" THEN Lit.ILIKE ELSE Lit.LIKE)
          \o Lit.placeholder

RECURSIVE Disjunction(_, _)
\* The comparisons of the first n search fields, joined by OR.
Disjunction(fields, n) ==
    IF n = 1 THEN Comparison(fields[1])
    ELSE Disjunction(fields, n - 1) \o Lit.or_sep \o Comparison(fields[n])

\* C9: the data query carries a search predicate exactly when Search is
\* non-empty and the builder declares a search field; it is the OR of one
\* comparison per declared field, in declaration order, each against the
\* bound argument "%" + Search + "%", with ILIKE for postgresql and LIKE for
\* every other dialect.
C9_SearchPredicate ==
    DataQueryBuilt =>
        LET fields == GetSearchFields(builder)
            n == Len(fields)
        IN  IF pagination.Search # Lit.empty /\ n >= 1
            THEN /\ Len(SearchPredicates) = 1
                 /\ SearchPredicates[1].op = "Where"
                 /\ SearchPredicates[1].sql =
                       IF n = 1 THEN Disjunction(fields, 1)
                       ELSE Lit.lparen \o Disjunction(fields, n) \o Lit.rparen
                 /\ SearchPredicates[1].args =
                       [i \in 1..n |->
                           Value(Lit.percent \o pagination.Search \o Lit.percent)]
            ELSE SearchPredicates = <<>>

\* Two fields searched under postgresql.
C9_Witness ==
    /\ pc = "returned"
    /\ options.Dialect = "postgresql"
    /\ pagination.Search = Txt.go
    /\ \E i \in 1..Len(dataQuery) :
          dataQuery[i] = Call("Where", Txt.search_sql,
                              <<Value(Txt.search_pattern), Value(Txt.search_pattern)>>)

\* C10: the count query is executed before the data query and each at most
\* once; when the count query fails, with or without a CustomCountQuery, the
\* call returns no results, a total of 0 and an error that wraps the backend
\* error and names the count phase, and the data query is never executed.
C10_CountFirstNoRetry ==
    /\ Len(executed) <= 2
    /\ Len(executed) >= 1 => executed[1].query = "count"
    /\ Len(executed) = 2 => executed[2].query = "find" /\ executed[1].ok
    /\ (Len(executed) >= 1 /\ ~executed[1].ok) =>
          /\ Len(executed) = 1
          /\ pc = "returned"
          /\ dataQuery = <<>>
          /\ ret.result.nil
          /\ ret.total = 0
          /\ ret.err = Errorf("failed to count records", BackendError)

\* A caller's own count statement failed.
C10_Witness ==
    /\ pc = "returned"
    /\ options.CustomCountQuery = Txt.custom_count
    /\ countQuery[Len(countQuery)] = Call("Raw", Txt.custom_count, <<>>)
    /\ executed = <<Executed("count", FALSE)>>
    /\ ~ret.err.nil

\* C11: when the count query succeeds and Find then fails, the call returns
\* a nil result, a total of 0 rather than the count obtained, and an error
\* that wraps the backend error and names the fetch phase; a non-nil result
\* is returned only together with a nil error.
C11_FetchFailureReturnsNothing ==
    /\ (Len(executed) = 2 /\ executed[1].ok /\ ~executed[2].ok) =>
          /\ pc = "returned"
          /\ ret.result = NilSlice
          /\ ret.total = 0
          /\ ret.err = Errorf("failed to fetch records", BackendError)
    /\ (pc = "returned" /\ ~ret.result.nil) => ret.err.nil

\* Find failed after a count of at least one row had been stored.
C11_Witness ==
    /\ pc = "returned"
    /\ executed = <<Executed("count", TRUE), Executed("find", FALSE)>>
    /\ totalCount >= 1
    /\ ret.total = 0
    /\ ret.result.nil

\* The Offset and Limit calls of the data query.
OffsetCalls == CallsOf(dataQuery, "Offset")

LimitCalls == CallsOf(dataQuery, "Limit")

\* C13: for every request, validated or not, the window of the data query
\* has limit >= 1, offset >= 0 and offset = (effectivePage - 1) * limit, with
\* effectivePage the Page coerced to >= 1 and limit the PerPage coerced to 10
\* when <= 0.  (Coercing is idempotent, so the request as the call leaves it
\* gives the same effectivePage and limit as the request passed in.)
C13_WindowIsConsistent ==
    DataQueryBuilt =>
        LET effectivePage == IF pagination.Page <= 0 THEN 1 ELSE pagination.Page
            limit == IF pagination.PerPage <= 0 THEN 10 ELSE pagination.PerPage
        IN  /\ Len(OffsetCalls) = 1 /\ Len(LimitCalls) = 1
            /\ LimitCalls[1].n = limit
            /\ LimitCalls[1].n >= 1
            /\ OffsetCalls[1].n >= 0
            /\ OffsetCalls[1].n = (effectivePage - 1) * LimitCalls[1].n

\* The call succeeded and the count was the helper's own count statement.
SucceededWithOwnCount ==
    pc = "returned" /\ ret.err.nil /\ options.CustomCountQuery = Lit.empty

\* C14: on success the total returned is the number of rows the data query
\* selects with its offset/limit window removed (both queries carry the
\* builder's filters, the soft-delete exclusion and the search predicate),
\* and the rows returned never outnumber the total.
C14_TotalMatchesDataQuery ==
    SucceededWithOwnCount =>
        /\ ret.total = Len(Selected(table, dataQuery))
        /\ Len(ret.result.rows) <= ret.total

\* Text of the form "<field> <dir>": field made only of characters of
\* [A-Za-z0-9_.], one space, dir exactly "asc" or "desc".
IsFieldAndDirection(text) ==
    \E dir \in {Lit.asc, Lit.desc} :
        LET cut == Len(text) - Len(dir)
        IN  /\ cut >= 1
            /\ SubSeq(text, cut + 1, Len(text)) = dir
            /\ SubSeq(text, cut, cut) = Lit.space
            /\ \A i \in 1..(cut - 1) : text[i] \in IdentChars

\* C15: every ORDER BY expression handed to the query is the builder's own
\* default sort or "<field> <dir>" with a field over [A-Za-z0-9_.] and a dir
\* that is exactly asc or desc, for any request the caller passes, bound and
\* validated or not.
C15_OrderClauseIsValidated ==
    \A i \in 1..Len(OrderCalls) :
        \/ OrderCalls[i].sql = GetDefaultSort(builder)
        \/ IsFieldAndDirection(OrderCalls[i].sql)

-----------------------------------------------------------------------------
(* Properties of the entry points for an IncludableQueryBuilder.           *)

\* The call was made without a connection.
NilConnection == epOp = "done" /\ epDb = NilDB

\* C12: for both entry points, a nil connection with a builder that is no
\* DatabaseProvider gives a configuration error (nil results, total 0)
\* before Validate() is called and before any query is built; a nil
\* connection with a DatabaseProvider makes both queries use GetDB().
C12_NilConnection ==
    /\ (NilConnection /\ ~epBuilder.DatabaseProvider) =>
          /\ epOutcome.kind = "returned"
          /\ epOutcome.ret.result.nil
          /\ epOutcome.ret.total = 0
          /\ ~epOutcome.ret.err.nil
          /\ epCalls = <<>>
    /\ (NilConnection /\ epBuilder.DatabaseProvider /\ epBuilder.GetDB # NilDB) =>
          /\ epOutcome.kind = "delegated"
          /\ epOutcome.countDb = epBuilder.GetDB
          /\ epOutcome.dataDb = epBuilder.GetDB

=============================================================================
